---- MODULE Spec2Model ----
(***************************************************************************)
(* kmacho.structs: the Struct base class (a fixed-layout record codec) and *)
(* the catalog of Mach-O record layouts built on it.                       *)
(*                                                                         *)
(* One Struct instance is modelled: it is created by a subclass            *)
(* constructor, completed by create_with_bytes or create_with_values, and  *)
(* then read and written through attribute access.                         *)
(*                                                                         *)
(* A Python int is unbounded, so it is modelled by its sign and its        *)
(* base-256 expansion, least significant digit first, without a most       *)
(* significant zero digit (zero is the empty expansion).  A bytes or       *)
(* bytearray object is a sequence over 0..255.                             *)
(***************************************************************************)
EXTENDS Integers, Sequences, FiniteSets

VARIABLES
    struct_class,   \* the Struct subclass of the instance
    byte_order,     \* self.byte_order
    _fields,        \* self._fields: field name -> value
    raw,            \* self.raw
    initialized,    \* self.initialized
    pc,             \* "new", "bare", "live" or "raised"
    call,           \* the last call made and its arguments
    err,            \* the exception the last call raised, or "None"
    result,         \* the value the last attribute read returned
    n_ops           \* attribute reads and writes made so far

vars ==
    <<struct_class, byte_order, _fields, raw, initialized, pc, call, err,
      result, n_ops>>

(***************************************************************************)
(* Bounds of the model.                                                    *)
(***************************************************************************)
\* attribute reads and writes on one instance
MaxOps ==
    2

\* how many bytes a decoded buffer may fall short of the struct's size
MaxShort ==
    1

\* how many bytes a decoded buffer may exceed the struct's size
MaxExtra ==
    1

\* how far the length of a value list may differ from the field count
MaxArity ==
    1

(***************************************************************************)
(* The catalog: one Struct subclass per Mach-O record kind.                *)
(***************************************************************************)
fat_header ==
    [name |-> "fat_header",
     _FIELDNAMES |-> <<"magic", "nfat_archs">>,
     _SIZES |-> <<4, 4>>]

fat_arch ==
    [name |-> "fat_arch",
     _FIELDNAMES |-> <<"cpu_type", "cpu_subtype", "offset", "size", "align">>,
     _SIZES |-> <<4, 4, 4, 4, 4>>]

dyld_header ==
    [name |-> "dyld_header",
     _FIELDNAMES |-> <<"magic", "cpu_type", "cpu_subtype", "filetype", "loadcnt", "loadsize", "flags", "void">>,
     _SIZES |-> <<4, 4, 4, 4, 4, 4, 4, 4>>]

unk_command ==
    [name |-> "unk_command",
     _FIELDNAMES |-> <<"cmd", "cmdsize">>,
     _SIZES |-> <<4, 4>>]

segment_command_64 ==
    [name |-> "segment_command_64",
     _FIELDNAMES |-> <<"cmd", "cmdsize", "segname", "vmaddr", "vmsize", "fileoff", "filesize", "maxprot", "initprot", "nsects", "flags">>,
     _SIZES |-> <<4, 4, 16, 8, 8, 8, 8, 4, 4, 4, 4>>]

section_64 ==
    [name |-> "section_64",
     _FIELDNAMES |-> <<"sectname", "segname", "addr", "size", "offset", "align", "reloff", "nreloc", "flags", "reserved1", "reserved2", "reserved3">>,
     _SIZES |-> <<16, 16, 8, 8, 4, 4, 4, 4, 4, 4, 4, 4>>]

symtab_command ==
    [name |-> "symtab_command",
     _FIELDNAMES |-> <<"cmd", "cmdsize", "symoff", "nsyms", "stroff", "strsize">>,
     _SIZES |-> <<4, 4, 4, 4, 4, 4>>]

dysymtab_command ==
    [name |-> "dysymtab_command",
     _FIELDNAMES |-> <<"cmd", "cmdsize", "ilocalsym", "nlocalsym", "iextdefsym", "nextdefsym", "iundefsym", "nundefsym", "tocoff", "ntoc", "modtaboff", "nmodtab", "extrefsymoff", "nextrefsyms", "indirectsymoff", "nindirectsyms", "extreloff", "nextrel", "locreloff", "nlocrel">>,
     _SIZES |-> <<4, 4, 4, 4, 4, 4, 4, 4, 4, 4, 4, 4, 4, 4, 4, 4, 4, 4, 4, 4>>]

dylib ==
    [name |-> "dylib",
     _FIELDNAMES |-> <<"name", "timestamp", "current_version", "compatibility_version">>,
     _SIZES |-> <<4, 4, 4, 4>>]

dylib_command ==
    [name |-> "dylib_command",
     _FIELDNAMES |-> <<"cmd", "cmdsize", "dylib">>,
     _SIZES |-> <<4, 4, 16>>]

dylinker_command ==
    [name |-> "dylinker_command",
     _FIELDNAMES |-> <<"cmd", "cmdsize", "name">>,
     _SIZES |-> <<4, 4, 4>>]

sub_client_command ==
    [name |-> "sub_client_command",
     _FIELDNAMES |-> <<"cmd", "cmdsize", "offset">>,
     _SIZES |-> <<4, 4, 4>>]

uuid_command ==
    [name |-> "uuid_command",
     _FIELDNAMES |-> <<"cmd", "cmdsize", "uuid">>,
     _SIZES |-> <<4, 4, 16>>]

build_version_command ==
    [name |-> "build_version_command",
     _FIELDNAMES |-> <<"cmd", "cmdsize", "platform", "minos", "sdk", "ntools">>,
     _SIZES |-> <<4, 4, 4, 4, 4, 4>>]

entry_point_command ==
    [name |-> "entry_point_command",
     _FIELDNAMES |-> <<"cmd", "cmdsize", "entryoff", "stacksize">>,
     _SIZES |-> <<4, 4, 8, 8>>]

rpath_command ==
    [name |-> "rpath_command",
     _FIELDNAMES |-> <<"cmd", "cmdsize", "path">>,
     _SIZES |-> <<4, 4, 4>>]

source_version_command ==
    [name |-> "source_version_command",
     _FIELDNAMES |-> <<"cmd", "cmdsize", "version">>,
     _SIZES |-> <<4, 4, 8>>]

linkedit_data_command ==
    [name |-> "linkedit_data_command",
     _FIELDNAMES |-> <<"cmd", "cmdsize", "dataoff", "datasize">>,
     _SIZES |-> <<4, 4, 4, 4>>]

dyld_info_command ==
    [name |-> "dyld_info_command",
     _FIELDNAMES |-> <<"cmd", "cmdsize", "rebase_off", "rebase_size", "bind_off", "bind_size", "weak_bind_off", "weak_bind_size", "lazy_bind_off", "lazy_bind_size", "export_off", "export_size">>,
     _SIZES |-> <<4, 4, 4, 4, 4, 4, 4, 4, 4, 4, 4, 4>>]

symtab_entry ==
    [name |-> "symtab_entry",
     _FIELDNAMES |-> <<"str_index", "type", "sect_index", "desc", "value">>,
     _SIZES |-> <<4, 1, 1, 2, 8>>]

version_min_command ==
    [name |-> "version_min_command",
     _FIELDNAMES |-> <<"cmd", "cmdsize", "version", "reserved">>,
     _SIZES |-> <<4, 4, 4, 4>>]

Catalog ==
    {fat_header, fat_arch, dyld_header, unk_command, segment_command_64,
     section_64, symtab_command, dysymtab_command, dylib, dylib_command,
     dylinker_command, sub_client_command, uuid_command,
     build_version_command, entry_point_command, rpath_command,
     source_version_command, linkedit_data_command, dyld_info_command,
     symtab_entry, version_min_command}

(***************************************************************************)
(* Python values and the built-ins the class calls.                        *)
(***************************************************************************)
PyInt(neg, digits) ==
    [type |-> "int", neg |-> neg, digits |-> digits]

PyBytes(data) ==
    [type |-> "bytes", data |-> data]

PyMethod(name) ==
    [type |-> "method", name |-> name]

NoValue ==
    [type |-> "NoneType"]

Min(a, b) ==
    IF a <= b THEN a ELSE b

Reverse(s) ==
    [i \in 1 .. Len(s) |-> s[Len(s) + 1 - i]]

Zeros(n) ==
    [i \in 1 .. n |-> 0]

\* sum(sizes)
RECURSIVE Sum(_)
Sum(s) ==
    IF s = <<>> THEN 0 ELSE Head(s) + Sum(Tail(s))

\* drop the most significant zero digits of a little-endian expansion
RECURSIVE Strip(_)
Strip(d) ==
    IF d = <<>> THEN <<>>
    ELSE IF d[Len(d)] = 0 THEN Strip(SubSeq(d, 1, Len(d) - 1))
    ELSE d

\* the base-256 expansion of a natural number
RECURSIVE Digits(_)
Digits(n) ==
    IF n = 0 THEN <<>> ELSE <<n % 256>> \o Digits(n \div 256)

\* an int literal
Int256(n) ==
    IF n < 0 THEN PyInt(TRUE, Digits(0 - n)) ELSE PyInt(FALSE, Digits(n))

\* s[lo:hi] for 0 <= lo <= hi: the slice is clipped to the sequence
Slice(s, lo, hi) ==
    SubSeq(s, lo + 1, Min(hi, Len(s)))

\* from_bytes reading every buffer least significant byte first
from_bytes_little(data, order) ==
    PyInt(FALSE, Strip(data))

\* int.from_bytes(data, byte_order), unsigned
from_bytes(data, order) ==
    PyInt(FALSE, Strip(IF order = "little" THEN data ELSE Reverse(data)))

\* int.to_bytes(size, byteorder=order), unsigned: OverflowError for a negative
\* int and for one that needs more than size bytes
to_bytes(v, size, order) ==
    IF v.neg \/ Len(v.digits) > size
    THEN [err |-> "OverflowError", data |-> <<>>]
    ELSE LET le == v.digits \o Zeros(size - Len(v.digits))
         IN  [err |-> "None",
              data |-> IF order = "little" THEN le ELSE Reverse(le)]

(***************************************************************************)
(* Struct.__init__: what a subclass constructor leaves in the instance.    *)
(***************************************************************************)
_field_list(cls) ==
    cls._FIELDNAMES

FieldIndex(cls, field) ==
    CHOOSE i \in 1 .. Len(cls._FIELDNAMES) : cls._FIELDNAMES[i] = field

FieldNames(cls) ==
    {cls._FIELDNAMES[i] : i \in 1 .. Len(cls._FIELDNAMES)}

_field_sizes(cls) ==
    [f \in FieldNames(cls) |-> cls._SIZES[FieldIndex(cls, f)]]

_sizeof(cls) ==
    Sum(cls._SIZES)

\* self._fields[i] = 0 for every field
InitFields(cls) ==
    [f \in FieldNames(cls) |-> Int256(0)]

\* len(instance)
__len__(cls) ==
    _sizeof(cls)


(***************************************************************************)
(* Struct.create_with_bytes: the body of the loop over _field_list, and    *)
(* the loop.  st is the instance and current_off.                          *)
(***************************************************************************)
\* the loop body slicing raw[current_off:size]
UnpackField_end(cls, buf, order, st, field) ==
    LET size == _field_sizes(cls)[field]
        data == Slice(buf, st.current_off, size)
    IN  [_fields     |-> [st._fields EXCEPT ![field] = from_bytes(data, order)],
         raw         |-> st.raw \o data,
         initialized |-> TRUE,
         current_off |-> st.current_off + size]

UnpackField(cls, buf, order, st, field) ==
    LET size == _field_sizes(cls)[field]
        data == Slice(buf, st.current_off, st.current_off + size)
    IN  [_fields     |-> [st._fields EXCEPT ![field] = from_bytes(data, order)],
         raw         |-> st.raw \o data,
         initialized |-> TRUE,
         current_off |-> st.current_off + size]

RECURSIVE UnpackLoop(_, _, _, _, _)
UnpackLoop(cls, buf, order, st, i) ==
    IF i > Len(_field_list(cls)) THEN st
    ELSE UnpackLoop(cls, buf, order,
                    UnpackField(cls, buf, order, st, _field_list(cls)[i]),
                    i + 1)

(***************************************************************************)
(* Struct._rebuild_raw.  The loop stops at the first field whose encoding  *)
(* raises; the assertion on the total length comes after the loop; and     *)
(* self.raw is assigned only when nothing raised.                          *)
(***************************************************************************)
RECURSIVE RebuildLoop(_, _, _, _, _)
RebuildLoop(cls, fields, order, acc, i) ==
    IF i > Len(_field_list(cls))
    THEN [err |-> IF Len(acc) = _sizeof(cls) THEN "None" ELSE "AssertionError",
          raw |-> acc]
    ELSE LET field     == _field_list(cls)[i]
             size      == _field_sizes(cls)[field]
             field_dat == fields[field]
         IN  IF field_dat.type = "int"
             THEN LET r == to_bytes(field_dat, size, order)
                  IN  IF r.err # "None"
                      THEN [err |-> r.err, raw |-> acc]
                      ELSE RebuildLoop(cls, fields, order, acc \o r.data, i + 1)
             ELSE IF field_dat.type = "bytes"
             THEN RebuildLoop(cls, fields, order, acc \o field_dat.data, i + 1)
             ELSE [err |-> "AssertionError", raw |-> acc]

\* _rebuild_raw appending to self.raw as it goes
_rebuild_raw_partial(cls, fields, order, old_raw) ==
    RebuildLoop(cls, fields, order, <<>>, 1)

_rebuild_raw(cls, fields, order, old_raw) ==
    LET r == RebuildLoop(cls, fields, order, <<>>, 1)
    IN  IF r.err = "None"
        THEN [err |-> "None", raw |-> r.raw]
        ELSE [err |-> r.err, raw |-> old_raw]

(***************************************************************************)
(* Attribute lookup.  Python looks an attribute up on the instance and its *)
(* class first and calls __getattr__ only when that fails, so the names of *)
(* the methods of Struct never reach __getattr__.                          *)
(***************************************************************************)
Methods ==
    {"typename", "desc"}

__getattr__(fields, item) ==
    IF item = "_fields" THEN [err |-> "None", value |-> [type |-> "dict"]]
    ELSE IF item \in DOMAIN fields THEN [err |-> "None", value |-> fields[item]]
    ELSE [err |-> "AttributeError", value |-> NoValue]

getattr(fields, item) ==
    IF item \in Methods THEN [err |-> "None", value |-> PyMethod(item)]
    ELSE __getattr__(fields, item)

(***************************************************************************)
(* The inputs the calls are made with.                                     *)
(***************************************************************************)
ByteOrders ==
    {"little", "big"}

\* n bytes, every third one zero, so that fields with a zero most significant
\* byte occur under either byte order
Pattern(seed, n) ==
    [i \in 1 .. n |-> IF i % 3 = 1 THEN 0 ELSE (seed * i) % 256]

\* buffers shorter than, as long as and longer than the struct
Buffers(cls) ==
    {Pattern(37, n) :
        n \in {m \in (_sizeof(cls) - MaxShort) .. (_sizeof(cls) + MaxExtra) : m >= 0}}

\* 2^(8w) - 1, the largest int a field of width w holds
IntMax(w) ==
    PyInt(FALSE, [i \in 1 .. w |-> 255])

\* 2^(8w), the smallest int a field of width w cannot hold
IntPow(w) ==
    PyInt(FALSE, Zeros(w) \o <<1>>)

Blob(n) ==
    PyBytes(Pattern(101, n))

SmallInts(cls) ==
    [i \in 1 .. Len(cls._SIZES) |-> Int256(i)]

\* one multi-byte int per field, each within its field's width
PatternInts(cls) ==
    [i \in 1 .. Len(cls._SIZES) |-> PyInt(FALSE, Strip(Pattern(53 + i, cls._SIZES[i])))]

\* value lists of the right length: ints that fit, blobs of the declared
\* widths, a first blob one byte short with a last blob one byte long, an int
\* too large, a negative int, a blob one byte short
FullLists(cls) ==
    LET n == Len(cls._SIZES)
        s == cls._SIZES
    IN  {SmallInts(cls),
         PatternInts(cls),
         [i \in 1 .. n |-> IntMax(s[i])],
         [i \in 1 .. n |-> Blob(s[i])],
         [i \in 1 .. n |-> IF i = 1 THEN Blob(s[1] - 1)
                           ELSE IF i = n THEN Blob(s[n] + 1)
                           ELSE Int256(i)],
         [SmallInts(cls) EXCEPT ![n] = IntPow(s[n])],
         [SmallInts(cls) EXCEPT ![1] = Int256(0 - 1)],
         [SmallInts(cls) EXCEPT ![1] = Blob(s[1] - 1)]}

\* value lists that are too short or too long
OddLists(cls) ==
    LET n == Len(cls._SIZES)
    IN  {SubSeq(SmallInts(cls), 1, n - d) : d \in {e \in 1 .. MaxArity : e <= n}}
        \cup {SmallInts(cls) \o [i \in 1 .. d |-> Int256(i)] : d \in 1 .. MaxArity}

ValueLists(cls) ==
    FullLists(cls) \cup OddLists(cls)

\* the fields written: the first and the last of the struct
Targets(cls) ==
    {cls._FIELDNAMES[1], cls._FIELDNAMES[Len(cls._FIELDNAMES)]}

\* the values a field of width w is set to: the largest int that fits, the
\* smallest that does not, and blobs of the declared width, one byte short
\* and one byte long
SetValues(w) ==
    {IntMax(w), IntPow(w), Blob(w), Blob(w - 1), Blob(w + 1)}

\* the attribute names read: the fields, a method and a name that is neither
Items(cls) ==
    FieldNames(cls) \cup {"typename", "missing"}

(***************************************************************************)
(* The instance right after struct_class(byte_order).                      *)
(***************************************************************************)
Init ==
    /\ struct_class \in Catalog
    /\ byte_order \in ByteOrders
    /\ _fields = InitFields(struct_class)
    /\ raw = <<>>
    /\ initialized = FALSE
    /\ pc = "new"
    /\ call = [op |-> "__init__"]
    /\ err = "None"
    /\ result = NoValue
    /\ n_ops = 0

(***************************************************************************)
(* Struct.create_with_bytes(struct_class, buf, byte_order)                 *)
(***************************************************************************)
create_with_bytes(buf) ==
    /\ pc = "new"
    /\ LET st == UnpackLoop(struct_class, buf, byte_order,
                            [_fields     |-> _fields,
                             raw         |-> raw,
                             initialized |-> initialized,
                             current_off |-> 0],
                            1)
       IN  /\ _fields' = st._fields
           /\ raw' = st.raw
           /\ initialized' = st.initialized
    /\ pc' = "live"
    /\ call' = [op |-> "create_with_bytes", raw |-> buf]
    /\ err' = "None"
    /\ result' = NoValue
    /\ UNCHANGED <<struct_class, byte_order, n_ops>>

(***************************************************************************)
(* Struct.create_with_values(struct_class, values, byte_order).  values[i] *)
(* raises IndexError at the first field the list has no value for, after   *)
(* the fields before it were assigned; an exception of _rebuild_raw        *)
(* propagates and no instance is returned.                                 *)
(***************************************************************************)
AssignValues(cls, fields, values) ==
    [f \in DOMAIN fields |->
        IF FieldIndex(cls, f) <= Len(values)
        THEN values[FieldIndex(cls, f)]
        ELSE fields[f]]

create_with_values(values) ==
    /\ pc = "new"
    /\ LET assigned == AssignValues(struct_class, _fields, values)
           r        == _rebuild_raw(struct_class, assigned, byte_order, raw)
       IN  /\ _fields' = assigned
           /\ IF Len(values) < Len(_field_list(struct_class))
              THEN /\ err' = "IndexError"
                   /\ pc' = "raised"
                   /\ UNCHANGED <<raw, initialized>>
              ELSE IF r.err # "None"
              THEN /\ err' = r.err
                   /\ pc' = "raised"
                   /\ UNCHANGED <<raw, initialized>>
              ELSE /\ err' = "None"
                   /\ pc' = "live"
                   /\ raw' = r.raw
                   /\ initialized' = TRUE
    /\ call' = [op |-> "create_with_values", values |-> values]
    /\ result' = NoValue
    /\ UNCHANGED <<struct_class, byte_order, n_ops>>

(***************************************************************************)
(* Struct.__setattr__(key, value) for a key of _fields.  The value is      *)
(* stored first; _rebuild_raw runs after it when the instance is           *)
(* initialized, and its exception propagates to the caller.                *)
(***************************************************************************)
__setattr__(key, value) ==
    /\ pc \in {"new", "bare", "live"}
    /\ n_ops < MaxOps
    /\ call.op # "getattr"
    /\ key \in DOMAIN _fields
    /\ LET stored == [_fields EXCEPT ![key] = value]
           r      == _rebuild_raw(struct_class, stored, byte_order, raw)
       IN  /\ _fields' = stored
           /\ IF initialized
              THEN /\ raw' = r.raw
                   /\ err' = r.err
              ELSE /\ raw' = raw
                   /\ err' = "None"
    /\ pc' = IF pc = "new" THEN "bare" ELSE pc
    /\ call' = [op |-> "__setattr__", key |-> key, value |-> value]
    /\ result' = NoValue
    /\ n_ops' = n_ops + 1
    /\ UNCHANGED <<struct_class, byte_order, initialized>>

(***************************************************************************)
(* Reading instance.item.  The read leaves the instance as it is, so a run *)
(* that went on after it would only revisit the instance states of the run *)
(* without it: the model makes the read the last step of a run.            *)
(***************************************************************************)
ReadAttr(item) ==
    /\ pc \in {"bare", "live"}
    /\ n_ops < MaxOps
    /\ call.op # "getattr"
    /\ LET r == getattr(_fields, item)
       IN  /\ err' = r.err
           /\ result' = r.value
    /\ call' = [op |-> "getattr", item |-> item]
    /\ n_ops' = n_ops + 1
    /\ UNCHANGED <<struct_class, byte_order, _fields, raw, initialized, pc>>

Next ==
    \/ \E buf \in Buffers(struct_class) : create_with_bytes(buf)
    \/ \E values \in ValueLists(struct_class) : create_with_values(values)
    \/ \E key \in Targets(struct_class) :
         \E value \in SetValues(_field_sizes(struct_class)[key]) :
           __setattr__(key, value)
    \/ \E item \in Items(struct_class) : ReadAttr(item)

Spec ==
    Init /\ [][Next]_vars

(***************************************************************************)
(* Notions the properties are stated with.                                 *)
(***************************************************************************)
NumFields ==
    Len(_field_list(struct_class))

FieldAt(i) ==
    _field_list(struct_class)[i]

WidthAt(i) ==
    struct_class._SIZES[i]

\* the byte offset of the i-th field: the widths declared before it
OffsetAt(i) ==
    Sum(SubSeq(struct_class._SIZES, 1, i - 1))

\* the bytes of s at [OffsetAt(i), OffsetAt(i) + WidthAt(i))
RangeAt(s, i) ==
    SubSeq(s, OffsetAt(i) + 1, OffsetAt(i) + WidthAt(i))

\* 0 <= v < 2^(8w)
InRange(v, w) ==
    v.type = "int" /\ ~v.neg /\ Len(v.digits) <= w

\* v >= 2^(8w)
TooLarge(v, w) ==
    v.type = "int" /\ ~v.neg /\ Len(v.digits) > w

\* a field value encoded to width w: an int by its w-byte encoding, a blob
\* by itself when it is w bytes long
EncodeField(v, w, order) ==
    IF v.type = "int" THEN to_bytes(v, w, order)
    ELSE IF v.type = "bytes" /\ Len(v.data) = w THEN [err |-> "None", data |-> v.data]
    ELSE [err |-> "FieldWidthMismatch", data |-> <<>>]

\* what create_with_bytes makes of buf on a new instance of the same class
Decoded(buf) ==
    UnpackLoop(struct_class, buf, byte_order,
               [_fields     |-> InitFields(struct_class),
                raw         |-> <<>>,
                initialized |-> FALSE,
                current_off |-> 0],
               1)

Constructed ==
    pc = "live" /\ call.op = "create_with_values"

Unpacked ==
    pc = "live" /\ call.op = "create_with_bytes"

\* the step is a write of a field of a live instance
LiveWrite ==
    pc = "live" /\ call'.op = "__setattr__" /\ n_ops' = n_ops + 1

\* the step is a read of a field of a live instance
LiveRead ==
    /\ pc = "live" /\ call'.op = "getattr" /\ n_ops' = n_ops + 1
    /\ call'.item \in FieldNames(struct_class)

(***************************************************************************)
(* C1.  Round trip: an instance made by create_with_values from one int    *)
(* per field, each within its field's width, has a raw that                *)
(* create_with_bytes decodes, under the same byte order, to exactly those  *)
(* values, field by field in declared order.                               *)
(***************************************************************************)
C1_RoundTrip ==
    (/\ Constructed
     /\ Len(call.values) = NumFields
     /\ \A i \in 1 .. NumFields : InRange(call.values[i], WidthAt(i)))
    => \A i \in 1 .. NumFields : Decoded(raw)._fields[FieldAt(i)] = call.values[i]

\* a big-endian instance built from multi-byte values within range
C1_Witness ==
    /\ Constructed
    /\ byte_order = "big"
    /\ Len(call.values) = NumFields
    /\ \A i \in 1 .. NumFields : InRange(call.values[i], WidthAt(i))
    /\ \E i \in 1 .. NumFields : Len(call.values[i].digits) > 1
    /\ \A i \in 1 .. NumFields : Decoded(raw)._fields[FieldAt(i)] = call.values[i]

(***************************************************************************)
(* C2.  Cache consistency: in every state of a live instance, raw is the   *)
(* concatenation, in declared order, of every current field value encoded  *)
(* to its declared width under the instance's byte order.                  *)
(***************************************************************************)
C2_CacheConsistent ==
    pc = "live"
    => /\ Len(raw) = _sizeof(struct_class)
       /\ \A i \in 1 .. NumFields :
            LET e == EncodeField(_fields[FieldAt(i)], WidthAt(i), byte_order)
            IN  e.err = "None" /\ RangeAt(raw, i) = e.data

(***************************************************************************)
(* C3.  Size invariant: in every state of a live instance, len(raw) is the *)
(* size of the struct, which is what len(instance) reports.                *)
(***************************************************************************)
C3_SizeInvariant ==
    pc = "live" => Len(raw) = __len__(struct_class)

(***************************************************************************)
(* C4.  Decoding a buffer at least as long as the struct: every field is   *)
(* the unsigned int whose encoding at the field's width, under the byte    *)
(* order, is the buffer's bytes at the field's offset; raw is the buffer's *)
(* first _sizeof bytes; and the bytes after them change nothing.           *)
(***************************************************************************)
C4_DecodePrefix ==
    (Unpacked /\ Len(call.raw) >= _sizeof(struct_class))
    => /\ \A i \in 1 .. NumFields :
            to_bytes(_fields[FieldAt(i)], WidthAt(i), byte_order)
              = [err |-> "None", data |-> RangeAt(call.raw, i)]
       /\ raw = SubSeq(call.raw, 1, _sizeof(struct_class))
       /\ LET d == Decoded(SubSeq(call.raw, 1, _sizeof(struct_class)))
          IN  d._fields = _fields /\ d.raw = raw

\* a buffer longer than the struct was decoded
C4_Witness ==
    /\ Unpacked
    /\ Len(call.raw) > _sizeof(struct_class)
    /\ raw = SubSeq(call.raw, 1, _sizeof(struct_class))
    /\ \E i \in 2 .. NumFields : _fields[FieldAt(i)] # Int256(0)

(***************************************************************************)
(* C5.  Truncation: decoding a buffer shorter than the struct fails, and   *)
(* create_with_bytes never returns an instance whose raw is shorter than   *)
(* the struct.                                                             *)
(***************************************************************************)
C5_TruncationFails ==
    /\ (call.op = "create_with_bytes" /\ Len(call.raw) < _sizeof(struct_class))
       => (pc = "raised" /\ err # "None")
    /\ Unpacked => Len(raw) >= _sizeof(struct_class)

(***************************************************************************)
(* C6.  Overflow: writing an int of at least 2^(8w) to a field of width w  *)
(* of a live instance raises OverflowError and leaves raw as it was.       *)
(***************************************************************************)
C6_OverflowKeepsRaw ==
    [][(/\ LiveWrite
        /\ TooLarge(call'.value, _field_sizes(struct_class)[call'.key]))
       => (err' = "OverflowError" /\ raw' = raw)]_vars

\* a write of too large an int to a live instance with a full raw has raised
C6_Witness ==
    /\ pc = "live"
    /\ call.op = "__setattr__"
    /\ TooLarge(call.value, _field_sizes(struct_class)[call.key])
    /\ err = "OverflowError"
    /\ Len(raw) = _sizeof(struct_class)
    /\ call.key = FieldAt(NumFields)

(***************************************************************************)
(* C7.  All or nothing: a write to a live instance that raises leaves      *)
(* every field value, the written field's included, and raw as they were.  *)
(***************************************************************************)
C7_AllOrNothing ==
    [][(LiveWrite /\ err' # "None") => (_fields' = _fields /\ raw' = raw)]_vars

(***************************************************************************)
(* C8.  Arity: create_with_values with a value list shorter or longer than *)
(* the field list fails before any field is assigned, and returns no       *)
(* instance.                                                               *)
(***************************************************************************)
C8_ArityChecked ==
    (call.op = "create_with_values" /\ Len(call.values) # NumFields)
    => /\ pc = "raised"
       /\ err # "None"
       /\ _fields = InitFields(struct_class)

(***************************************************************************)
(* C9.  Blob width: whenever create_with_values or a write to a live       *)
(* instance succeeds, every field holding a blob holds one of the field's  *)
(* declared width, and the blob lies in raw at the field's own byte range. *)
(***************************************************************************)
C9_BlobWidth ==
    (pc = "live" /\ err = "None" /\ call.op \in {"create_with_values", "__setattr__"})
    => \A i \in 1 .. NumFields :
         _fields[FieldAt(i)].type = "bytes"
         => /\ Len(_fields[FieldAt(i)].data) = WidthAt(i)
            /\ RangeAt(raw, i) = _fields[FieldAt(i)].data

(***************************************************************************)
(* C10.  Read accessor: reading a field of a live instance returns the     *)
(* field's current value and changes neither raw nor any field value.      *)
(***************************************************************************)
C10_ReadReturnsField ==
    [][LiveRead
       => /\ err' = "None"
          /\ result' = _fields[call'.item]
          /\ _fields' = _fields
          /\ raw' = raw]_vars
====
